---- MODULE Spec2Model ----
(***************************************************************************)
(* Model of the Kadota package tool (SysPkgs/pkg/pkg.py and the older      *)
(* SysApps/pkg/pkg.py): version constraints, the on-disk package registry, *)
(* dependency resolution and the tree merge of generate_bwrap_args.        *)
(*                                                                         *)
(* Strings are sequences of one-character strings, so that split, `in`     *)
(* and Version parsing are computed character by character.                *)
(***************************************************************************)
EXTENDS Integers, Sequences, FiniteSets, TLC

VARIABLES registry, call, result

vars == <<registry, call, result>>

----------------------------------------------------------------------------
(* Bounds of the model *)

MaxVerLen == 3

MaxFolders == 2

MaxDeps == 2

----------------------------------------------------------------------------
(* Python values *)

None == [type |-> "None"]

Ok(v) == [status |-> "ok", value |-> v]

Raise(exc, what) == [status |-> "raise", exc |-> exc, what |-> what]

SeqsUpTo(S, n) == UNION {[1..k -> S] : k \in 0..n}

Range(s) == {s[i] : i \in 1..Len(s)}

----------------------------------------------------------------------------
(* str operations *)

\* str.find(sep) + 1: index of the leftmost occurrence of sep in s, 0 if none
IndexOf(s, sep) ==
  LET hits == {i \in 1..(Len(s) - Len(sep) + 1) :
                 SubSeq(s, i, i + Len(sep) - 1) = sep}
  IN IF hits = {} THEN 0 ELSE CHOOSE i \in hits : \A j \in hits : i <= j

\* sub in s
Contains(s, sub) == IndexOf(s, sub) # 0

RECURSIVE split(_, _)
\* s.split(sep): the pieces between the non-overlapping occurrences of sep,
\* scanning from the left
split(s, sep) ==
  LET i == IndexOf(s, sep)
  IN IF i = 0 THEN <<s>>
     ELSE <<SubSeq(s, 1, i - 1)>> \o split(SubSeq(s, i + Len(sep), Len(s)), sep)

----------------------------------------------------------------------------
(* packaging.version.Version, restricted to the characters of the model:   *)
(* with only digits and "." available a string is a valid version exactly  *)
(* when it is a release  N(.N)*                                            *)

Digits == {"0", "1", "2"}

DigitVal == ("0" :> 0) @@ ("1" :> 1) @@ ("2" :> 2)

RECURSIVE ParseInt(_)
ParseInt(s) ==
  IF s = <<>> THEN 0
  ELSE 10 * ParseInt(SubSeq(s, 1, Len(s) - 1)) + DigitVal[s[Len(s)]]

VersionValid(s) ==
  LET segs == split(s, <<".">>)
  IN \A i \in 1..Len(segs) : segs[i] # <<>> /\ Range(segs[i]) \subseteq Digits

\* Version(s): the release tuple, as parsed (Version("1.0").release = (1, 0))
Version(s) ==
  LET segs == split(s, <<".">>)
  IN [type |-> "Version", release |-> [i \in 1..Len(segs) |-> ParseInt(segs[i])]]

RECURSIVE StripZeros(_)
StripZeros(r) ==
  IF r = <<>> THEN <<>>
  ELSE IF r[Len(r)] = 0 THEN StripZeros(SubSeq(r, 1, Len(r) - 1)) ELSE r

\* Version._key: the release with its trailing zeros dropped
Key(v) == StripZeros(v.release)

RECURSIVE TupleLt(_, _)
\* Python's tuple order
TupleLt(a, b) ==
  IF b = <<>> THEN FALSE
  ELSE IF a = <<>> THEN TRUE
  ELSE IF a[1] < b[1] THEN TRUE
  ELSE IF a[1] > b[1] THEN FALSE
  ELSE TupleLt(Tail(a), Tail(b))

Version_eq(a, b) == Key(a) = Key(b)

Version_lt(a, b) == TupleLt(Key(a), Key(b))

Version_le(a, b) == TupleLt(Key(a), Key(b)) \/ Key(a) = Key(b)

Version_gt(a, b) == TupleLt(Key(b), Key(a))

Version_ge(a, b) == TupleLt(Key(b), Key(a)) \/ Key(a) = Key(b)

VerStrings == SeqsUpTo(Digits \cup {"."}, MaxVerLen)

ValidVerStrings == {s \in VerStrings : VersionValid(s)}

----------------------------------------------------------------------------
(* class Dependency *)

Comparisons == {"==", ">=", "<=", ">", "<", "None"}

\* Dependency.__init__: version may be a str (converted) or a Version / None
Dependency(name, comparison, version) ==
  [name |-> name, comparison |-> comparison, version |-> version]

satisfied_by_swapped(self, version) ==
  IF self.comparison = "==" THEN Version_eq(self.version, version)
  ELSE IF self.comparison = "=" THEN Version_eq(self.version, version)
  ELSE IF self.comparison = ">=" THEN Version_ge(self.version, version)
  ELSE IF self.comparison = "<=" THEN Version_le(self.version, version)
  ELSE IF self.comparison = ">" THEN Version_gt(self.version, version)
  ELSE IF self.comparison = "<" THEN Version_lt(self.version, version)
  ELSE TRUE

satisfied_by(self, version) ==
  IF self.comparison = "==" THEN Version_eq(self.version, version)
  ELSE IF self.comparison = "=" THEN Version_eq(self.version, version)
  ELSE IF self.comparison = ">=" THEN Version_le(self.version, version)
  ELSE IF self.comparison = "<=" THEN Version_ge(self.version, version)
  ELSE IF self.comparison = ">" THEN Version_lt(self.version, version)
  ELSE IF self.comparison = "<" THEN Version_gt(self.version, version)
  ELSE TRUE

----------------------------------------------------------------------------
(* Calls of Dependency.satisfied_by on every constraint and candidate *)

Pending == [status |-> "pending"]

\* the constraints and candidates satisfied_by is asked about
SatCalls ==
  {[op |-> "satisfied_by",
    self |-> Dependency(<<"x">>, cmp, IF cmp = "None" /\ bare THEN None ELSE Version(cs)),
    version |-> Version(vs)] :
     cmp \in Comparisons, cs \in ValidVerStrings, vs \in ValidVerStrings,
     bare \in BOOLEAN}

InitSat ==
  /\ registry = <<>>
  /\ call \in SatCalls
  /\ result = Pending

CallSatisfiedBy ==
  /\ call.op = "satisfied_by"
  /\ result = Pending
  /\ result' = Ok(satisfied_by(call.self, call.version))
  /\ UNCHANGED <<registry, call>>

SpecSat == InitSat /\ [][CallSatisfiedBy]_vars

\* C4: satisfied_by(v) is true exactly when '==' and v = c, '>=' and v >= c,
\* '<=' and v <= c, '>' and v > c, '<' and v < c, and always when the
\* comparator is absent
SatisfiedByTable ==
  call.op = "satisfied_by" /\ result # Pending =>
    LET cmp == call.self.comparison
        c == call.self.version
        v == call.version
    IN result.value =
         \/ cmp = "None"
         \/ cmp = "==" /\ Version_eq(v, c)
         \/ cmp = ">=" /\ Version_ge(v, c)
         \/ cmp = "<=" /\ Version_le(v, c)
         \/ cmp = ">" /\ Version_gt(v, c)
         \/ cmp = "<" /\ Version_lt(v, c)

\* a '>=1.2' constraint was asked about 2 (satisfied)
SatisfiedByWitness ==
  /\ call.op = "satisfied_by"
  /\ call.self.comparison = ">="
  /\ call.self.version = Version(<<"1", ".", "2">>)
  /\ call.version = Version(<<"2">>)
  /\ result = Ok(TRUE)

----------------------------------------------------------------------------
(* parse_dep and get_deps_info *)

EqEq == <<"=", "=">>

GtEq == <<">", "=">>

LtEq == <<"<", "=">>

\* the comparison operator as Dependency stores it
CmpName(c) == IF c = EqEq THEN "==" ELSE IF c = GtEq THEN ">=" ELSE "<="

\* parse_dep(dep): Ok(Dependency), or the InvalidVersion that Version raises
\* inside Dependency.__init__ on the text split()[1]
parse_dep(dep) ==
  IF ~(Contains(dep, EqEq) \/ Contains(dep, GtEq) \/ Contains(dep, LtEq))
  THEN Ok(Dependency(dep, "None", None))
  ELSE LET comparison == IF Contains(dep, EqEq) THEN EqEq
                         ELSE IF Contains(dep, GtEq) THEN GtEq
                         ELSE LtEq
           dep_name == split(dep, comparison)[1]
           dep_version == split(dep, comparison)[2]
       IN IF VersionValid(dep_version)
          THEN Ok(Dependency(dep_name, CmpName(comparison), Version(dep_version)))
          ELSE Raise("InvalidVersion", dep_version)

RECURSIVE get_deps_info(_)
\* get_deps_info(deps): the parsed declarations in order, or the first error
get_deps_info(deps) ==
  IF deps = <<>> THEN Ok(<<>>)
  ELSE LET head == parse_dep(deps[1])
       IN IF head.status = "raise" THEN head
          ELSE LET rest == get_deps_info(Tail(deps))
               IN IF rest.status = "raise" THEN rest
                  ELSE Ok(<<head.value>> \o rest.value)

\* declaration strings: name, comparator-like text, version text, trailing text
DepStrings ==
  {n \o c \o v \o t :
     n \in {<<>>, <<"x">>, <<"x", "y">>},
     c \in {<<>>, EqEq, GtEq, LtEq, <<">">>, <<"<">>, <<"=">>},
     v \in VerStrings,
     t \in {<<>>, EqEq \o <<"2">>, LtEq \o <<"1">>, GtEq}}

InitParse ==
  /\ registry = <<>>
  /\ call \in {[op |-> "parse_dep", dep |-> d] : d \in DepStrings}
  /\ result = Pending

CallParseDep ==
  /\ call.op = "parse_dep"
  /\ result = Pending
  /\ result' = parse_dep(call.dep)
  /\ UNCHANGED <<registry, call>>

SpecParse == InitParse /\ [][CallParseDep]_vars

\* the first of '==', '>=', '<=' (in that order) that occurs in s, <<>> if none
FirstComparator(s) ==
  IF IndexOf(s, EqEq) # 0 THEN EqEq
  ELSE IF IndexOf(s, GtEq) # 0 THEN GtEq
  ELSE IF IndexOf(s, LtEq) # 0 THEN LtEq
  ELSE <<>>

\* C5: parse_dep checks '==', '>=', '<=' in that order; with none in the
\* string the name is the whole string and comparator and version are absent;
\* otherwise name is the text before the first match and version the text
\* after it; comparator absent iff version absent; never '>' or '<'
ParseDepSplitsOnFirstMatch ==
  call.op = "parse_dep" /\ result.status = "ok" =>
    LET s == call.dep
        c == FirstComparator(s)
        i == IndexOf(s, c)
        before == SubSeq(s, 1, i - 1)
        after == SubSeq(s, i + Len(c), Len(s))
        d == result.value
    IN /\ c = <<>> => d = Dependency(s, "None", None)
       /\ c # <<>> => /\ d.name = before
                      /\ d.comparison = CmpName(c)
                      /\ VersionValid(after)
                      /\ d.version = Version(after)
       /\ (d.comparison = "None") <=> (d.version = None)
       /\ d.comparison \notin {">", "<"}

----------------------------------------------------------------------------
(* The registry on disk: registry is os.listdir(root/System/Packages), a   *)
(* list of distinct folder names in an order the file system chooses; each *)
(* folder has or lacks its pkg-info file and owns a chroot tree.           *)

root == <<"/mnt">>

Stars == <<"*", "*", "*">>

\* a directory node: children in os.scandir order
Dir(children) == [kind |-> "dir", children |-> children]

Folder(name, info, chroot) == [name |-> name, info |-> info, chroot |-> chroot]

\* f"{root}/System/Packages/{pkg}"
PkgPath(pkg) == root \o <<"/System/Packages/">> \o pkg

\* class Package (SysPkgs)
Package(name, version, path) ==
  [type |-> "Package", name |-> name, version |-> version, path |-> path]

\* namedtuple pkg_info_t (SysApps): version stays a str
pkg_info_t(name, version, path) ==
  [type |-> "pkg_info_t", name |-> name, version |-> version, path |-> path]

\* a str yielded where a package is expected
PyStr(s) == [type |-> "str", value |-> s]

\* what a generator did: the values yielded, the lines printed, and the
\* exception that ended it ("None" when it ran to the end)
Gen(items, printed, exc) ==
  [status |-> "done", items |-> items, printed |-> printed, exc |-> exc]

RECURSIVE get_pkg_list_from(_, _)
get_pkg_list_from(reg, i) ==
  IF i > Len(reg) THEN Gen(<<>>, <<>>, "None")
  ELSE LET pkg == reg[i].name
           pkg_name == split(pkg, Stars)
           rest == get_pkg_list_from(reg, i + 1)
       IN IF Len(pkg_name) # 2
          THEN Gen(rest.items, <<pkg>> \o rest.printed, rest.exc)
          ELSE IF ~VersionValid(pkg_name[2])
          THEN Gen(<<>>, <<>>, "InvalidVersion")
          ELSE IF ~reg[i].info
          THEN Gen(<<>>, <<>>, "AssertionError")
          ELSE Gen(<<Package(pkg_name[1], Version(pkg_name[2]), PkgPath(pkg))>>
                     \o rest.items, rest.printed, rest.exc)

\* get_pkg_list() of SysPkgs/pkg/pkg.py
get_pkg_list(reg) == get_pkg_list_from(reg, 1)

RECURSIVE SysApps_get_pkg_list_from(_, _)
SysApps_get_pkg_list_from(reg, i) ==
  IF i > Len(reg) THEN Gen(<<>>, <<>>, "None")
  ELSE LET pkg == reg[i].name
           pkg_name == split(pkg, Stars)
           rest == SysApps_get_pkg_list_from(reg, i + 1)
       IN IF Len(pkg_name) # 2
          THEN Gen(rest.items, <<pkg>> \o rest.printed, rest.exc)
          ELSE Gen(<<pkg_info_t(pkg_name[1], pkg_name[2], pkg)>> \o rest.items,
                   rest.printed, rest.exc)

\* get_pkg_list() of SysApps/pkg/pkg.py
SysApps_get_pkg_list(reg) == SysApps_get_pkg_list_from(reg, 1)

RECURSIVE FilterYield(_, _, _)
\* the loop of search_pkg_list over the values another generator yields
FilterYield(items, name, strict) ==
  IF items = <<>> THEN <<>>
  ELSE LET pkg == items[1]
           rest == FilterYield(Tail(items), name, strict)
       IN IF strict
          THEN IF pkg.name = name THEN <<pkg>> \o rest ELSE rest
          ELSE IF Contains(pkg.name, name) THEN <<pkg>> \o rest ELSE rest

\* search_pkg_list(name, strict) of SysPkgs/pkg/pkg.py
search_pkg_list(reg, name, strict) ==
  LET listing == get_pkg_list(reg)
  IN Gen(FilterYield(listing.items, name, strict), listing.printed, listing.exc)

RECURSIVE SysApps_FilterYield(_, _, _)
SysApps_FilterYield(items, name, strict) ==
  IF items = <<>> THEN <<>>
  ELSE LET pkg == items[1]
           rest == SysApps_FilterYield(Tail(items), name, strict)
       IN IF strict
          THEN IF pkg.name = name THEN <<pkg>> \o rest ELSE rest
          ELSE IF Contains(pkg.name, name) THEN <<PyStr(name)>> \o rest ELSE rest

\* search_pkg_list(name, strict) of SysApps/pkg/pkg.py
SysApps_search_pkg_list(reg, name, strict) ==
  LET listing == SysApps_get_pkg_list(reg)
  IN Gen(SysApps_FilterYield(listing.items, name, strict),
         listing.printed, listing.exc)

----------------------------------------------------------------------------
(* Listing and searching registries with well-formed, malformed and        *)
(* half-written folders                                                    *)

FolderNames ==
  { <<"x">> \o Stars \o <<"1">>,
    <<"x">> \o Stars \o <<"1", ".", "0">>,
    <<"x">> \o Stars \o <<"2">>,
    <<"y">> \o Stars \o <<"1">>,
    <<"x", "y">> \o Stars \o <<"1", ".", "1">>,
    <<"x", "y">>,
    <<"x">> \o Stars \o <<"1">> \o Stars \o <<"2">>,
    <<"x">> \o Stars,
    <<"y">> \o Stars \o <<"x">>,
    <<"x", "*", "*", "*", "*", "1">> }

\* the listings os.listdir can return: no name twice
Registries(folders, n) ==
  {r \in SeqsUpTo(folders, n) :
     \A i, j \in 1..Len(r) : i # j => r[i].name # r[j].name}

ListFolders == {Folder(n, i, Dir(<<>>)) : n \in FolderNames, i \in BOOLEAN}

SearchNames == {<<>>, <<"x">>, <<"y">>, <<"x", "y">>}

ListCalls ==
  {[op |-> o] : o \in {"get_pkg_list", "SysApps_get_pkg_list"}}
  \cup {[op |-> o, name |-> n, strict |-> b] :
          o \in {"search_pkg_list", "SysApps_search_pkg_list"},
          n \in SearchNames, b \in BOOLEAN}

InitList ==
  /\ registry \in Registries(ListFolders, MaxFolders)
  /\ call \in ListCalls
  /\ result = Pending

CallGetPkgList ==
  /\ call.op = "get_pkg_list"
  /\ result = Pending
  /\ result' = get_pkg_list(registry)
  /\ UNCHANGED <<registry, call>>

SysApps_CallGetPkgList ==
  /\ call.op = "SysApps_get_pkg_list"
  /\ result = Pending
  /\ result' = SysApps_get_pkg_list(registry)
  /\ UNCHANGED <<registry, call>>

CallSearchPkgList ==
  /\ call.op = "search_pkg_list"
  /\ result = Pending
  /\ result' = search_pkg_list(registry, call.name, call.strict)
  /\ UNCHANGED <<registry, call>>

SysApps_CallSearchPkgList ==
  /\ call.op = "SysApps_search_pkg_list"
  /\ result = Pending
  /\ result' = SysApps_search_pkg_list(registry, call.name, call.strict)
  /\ UNCHANGED <<registry, call>>

NextList ==
  \/ CallGetPkgList
  \/ SysApps_CallGetPkgList
  \/ CallSearchPkgList
  \/ SysApps_CallSearchPkgList

SpecList == InitList /\ [][NextList]_vars

\* a folder name of exactly two '***'-delimited parts
TwoParts(f) == Len(split(f.name, Stars)) = 2

NotTwoParts(f) == ~TwoParts(f)

\* C6: get_pkg_list yields exactly one package per folder whose name splits
\* into exactly two '***'-delimited parts (name the first part, version the
\* second, path that folder), in enumeration order; every other folder is
\* skipped with a diagnostic naming it; the listing is never aborted
ListingToleratesCorruptNames ==
  call.op \in {"get_pkg_list", "SysApps_get_pkg_list"} /\ result # Pending =>
    LET good == SelectSeq(registry, TwoParts)
        bad == SelectSeq(registry, NotTwoParts)
    IN /\ result.exc = "None"
       /\ result.printed = [i \in 1..Len(bad) |-> bad[i].name]
       /\ Len(result.items) = Len(good)
       /\ \A i \in 1..Len(good) :
            LET parts == split(good[i].name, Stars)
                pkg == result.items[i]
            IN /\ pkg.name = parts[1]
               /\ IF call.op = "get_pkg_list"
                  THEN /\ VersionValid(parts[2])
                       /\ pkg.version = Version(parts[2])
                       /\ pkg.path = PkgPath(good[i].name)
                  ELSE /\ pkg.version = parts[2]
                       /\ pkg.path = good[i].name

\* C7: search_pkg_list(name, strict) yields exactly the packages of
\* get_pkg_list whose name equals name (strict) or contains it (not strict),
\* each a package of the listing, in enumeration order
SearchFiltersListing ==
  call.op \in {"search_pkg_list", "SysApps_search_pkg_list"} /\ result # Pending =>
    LET listing == IF call.op = "search_pkg_list"
                   THEN get_pkg_list(registry)
                   ELSE SysApps_get_pkg_list(registry)
        Match(p) == IF call.strict THEN p.name = call.name
                    ELSE Contains(p.name, call.name)
    IN result.items = SelectSeq(listing.items, Match)

----------------------------------------------------------------------------
(* deps_to_pkgs *)

RECURSIVE BestOf(_, _, _, _)
\* the loop  for pkg in pkgs  of deps_to_pkgs, from index i with the given best
BestOf(pkgs, i, best, dep) ==
  IF i > Len(pkgs) THEN best
  ELSE IF Version_gt(pkgs[i].version, best.version)
          /\ satisfied_by(dep, pkgs[i].version)
       THEN BestOf(pkgs, i + 1, pkgs[i], dep)
       ELSE BestOf(pkgs, i + 1, best, dep)

deps_to_pkgs_body_nonstrict(reg, dep) ==
  LET found == search_pkg_list(reg, dep.name, FALSE)
      pkgs == found.items
  IN IF found.exc # "None" THEN Raise(found.exc, dep.name)
     ELSE IF pkgs = <<>> THEN Raise("ValueError", dep.name)
     ELSE Ok(BestOf(pkgs, 1, pkgs[1], dep))

\* one round of the loop  for dep in deps_info : the package appended to
\* pkg_deps, or the exception that leaves deps_to_pkgs
deps_to_pkgs_body(reg, dep) ==
  LET found == search_pkg_list(reg, dep.name, TRUE)
      pkgs == found.items
  IN IF found.exc # "None" THEN Raise(found.exc, dep.name)
     ELSE IF pkgs = <<>> THEN Raise("ValueError", dep.name)
     ELSE Ok(BestOf(pkgs, 1, pkgs[1], dep))

RECURSIVE deps_to_pkgs(_, _)
deps_to_pkgs(reg, deps_info) ==
  IF deps_info = <<>> THEN Ok(<<>>)
  ELSE LET head == deps_to_pkgs_body(reg, deps_info[1])
       IN IF head.status = "raise" THEN head
          ELSE LET rest == deps_to_pkgs(reg, Tail(deps_info))
               IN IF rest.status = "raise" THEN rest
                  ELSE Ok(<<head.value>> \o rest.value)

ResolveFolders ==
  { Folder(<<"x">> \o Stars \o <<"1">>, TRUE, Dir(<<>>)),
    Folder(<<"x">> \o Stars \o <<"1", ".", "1">>, TRUE, Dir(<<>>)),
    Folder(<<"x">> \o Stars \o <<"2">>, TRUE, Dir(<<>>)),
    Folder(<<"y">> \o Stars \o <<"1">>, TRUE, Dir(<<>>)),
    Folder(<<"x", "y">> \o Stars \o <<"1">>, TRUE, Dir(<<>>)),
    Folder(<<"x", "y">>, TRUE, Dir(<<>>)),
    Folder(<<"y">> \o Stars \o <<"2">>, FALSE, Dir(<<>>)),
    Folder(<<"y">> \o Stars \o <<"x">>, TRUE, Dir(<<>>)) }

DepDecls ==
  { <<"x">>,
    <<"x">> \o LtEq \o <<"1", ".", "2">>,
    <<"x">> \o GtEq \o <<"1", ".", "1">>,
    <<"x">> \o EqEq \o <<"2">>,
    <<"y">>,
    <<"y">> \o GtEq \o <<"2">>,
    <<"x", "y">>,
    <<"x", "y">> \o EqEq \o <<"1">> }

InitResolve ==
  /\ registry \in Registries(ResolveFolders, MaxFolders)
  /\ call \in {[op |-> "deps_to_pkgs", deps |-> d] : d \in SeqsUpTo(DepDecls, MaxDeps)}
  /\ result = Pending

\* deps_to_pkgs(get_deps_info(deps)), as generate_bwrap_args calls it
CallDepsToPkgs ==
  /\ call.op = "deps_to_pkgs"
  /\ result = Pending
  /\ LET deps_info == get_deps_info(call.deps)
     IN result' = IF deps_info.status = "raise" THEN deps_info
                  ELSE deps_to_pkgs(registry, deps_info.value)
  /\ UNCHANGED <<registry, call>>

SpecResolve == InitResolve /\ [][CallDepsToPkgs]_vars

\* the name a declaration string declares: the text before its comparator
DeclName(s) ==
  LET c == FirstComparator(s)
  IN IF c = <<>> THEN s ELSE SubSeq(s, 1, IndexOf(s, c) - 1)

\* the constraint of the i-th declaration of the call
DeclConstraint(i) == parse_dep(call.deps[i]).value

\* the registry packages of a name that satisfy a constraint
Satisfying(dep) ==
  {p \in Range(get_pkg_list(registry).items) :
     p.name = dep.name /\ satisfied_by(dep, p.version)}

\* C1: the package returned for a declaration satisfies its constraint and
\* no other registry package of that name satisfying it has a greater version
ResolverMaximality ==
  call.op = "deps_to_pkgs" /\ result.status = "ok" =>
    \A i \in 1..Len(call.deps) :
      /\ result.value[i] \in Satisfying(DeclConstraint(i))
      /\ \A p \in Satisfying(DeclConstraint(i)) :
           ~Version_gt(p.version, result.value[i].version)

\* C2: when (on a registry whose listing completes) some declaration has no
\* registry package of its name satisfying its constraint, deps_to_pkgs
\* raises the resolution error naming such a dependency and returns no list
ResolverFailure ==
  call.op = "deps_to_pkgs" /\ result # Pending
  /\ get_pkg_list(registry).exc = "None" =>
    LET unsat == {i \in 1..Len(call.deps) : Satisfying(DeclConstraint(i)) = {}}
    IN unsat # {} =>
         /\ result.status = "raise"
         /\ result.exc = "ValueError"
         /\ \E i \in unsat : result.what = DeclConstraint(i).name

\* C3: a successful deps_to_pkgs returns one package per declaration, the
\* i-th package having the name of the i-th declaration
ResolverPreservesOrder ==
  call.op = "deps_to_pkgs" /\ result.status = "ok" =>
    /\ Len(result.value) = Len(call.deps)
    /\ \A i \in 1..Len(call.deps) : result.value[i].name = DeclName(call.deps[i])

\* y, x resolved in that order from a registry that lists x before y
ResolverPreservesOrderWitness ==
  /\ call.op = "deps_to_pkgs"
  /\ call.deps = << <<"y">>, <<"x">> \o GtEq \o <<"1", ".", "1">> >>
  /\ Len(registry) = 2
  /\ registry[1].name = <<"x">> \o Stars \o <<"2">>
  /\ registry[2].name = <<"y">> \o Stars \o <<"1">>
  /\ result.status = "ok"
  /\ result.value[1].name = <<"y">>
  /\ result.value[2].name = <<"x">>

----------------------------------------------------------------------------
(* Package trees and list_directory_tree *)

File == [kind |-> "file"]

\* a symbolic link to a directory (install_deb makes bin, sbin, lib, ... so)
DirLink == [kind |-> "dirlink"]

\* neither a directory nor a regular file: a broken link, a socket
Other == [kind |-> "other"]

Child(name, node) == [name |-> name, node |-> node]

\* os.path.join(path, name)
join(path, name) == path \o <<"/", name>>

IsNondir(c) == c.node.kind \notin {"dir", "dirlink"}

IsRealDir(c) == c.node.kind = "dir"

\* what one step of os.walk appends for directory path: the directory, then
\* its non-directories; every entry with what os.path.isdir / isfile answer
WalkStep(node, path) ==
  LET nondirs == SelectSeq(node.children, IsNondir)
  IN <<[path |-> path, kind |-> "dir"]>>
     \o [i \in 1..Len(nondirs) |->
           [path |-> join(path, nondirs[i].name), kind |-> nondirs[i].node.kind]]

RECURSIVE WalkDirs(_, _)
\* os.walk, top down, over the real sub-directories of path in turn
WalkDirs(subdirs, path) ==
  IF subdirs = <<>> THEN <<>>
  ELSE WalkStep(subdirs[1].node, join(path, subdirs[1].name))
       \o WalkDirs(SelectSeq(subdirs[1].node.children, IsRealDir),
                   join(path, subdirs[1].name))
       \o WalkDirs(Tail(subdirs), path)

\* the list list_directory_tree builds over os.walk(path)
Walk(node, path) ==
  WalkStep(node, path) \o WalkDirs(SelectSeq(node.children, IsRealDir), path)

\* list_directory_tree(path): Ok(list), or the ValueError of files.remove(path)
\* when path does not exist and os.walk yields nothing
list_directory_tree(node, path) ==
  IF node = None THEN Raise("ValueError", path)
  ELSE Ok(Tail(Walk(node, path)))

----------------------------------------------------------------------------
(* generate_bwrap_args (SysPkgs) *)

PyInt(n) == [type |-> "int", value |-> n]

item_t(bwrap_loc, fullpath, pkg, occurences) ==
  [bwrap_loc |-> bwrap_loc, fullpath |-> fullpath, pkg |-> pkg,
   occurences |-> occurences]

\* l.count(x)
count(l, x) == Cardinality({i \in 1..Len(l) : l[i] = x})

RECURSIVE Keys(_, _)
\* the keys of {x: ... for x in l} in insertion order: first occurrences
Keys(l, seen) ==
  IF l = <<>> THEN <<>>
  ELSE IF l[1] \in seen THEN Keys(Tail(l), seen)
  ELSE <<l[1]>> \o Keys(Tail(l), seen \cup {l[1]})

\* occurence_count(l): the dict as its items in iteration order
occurence_count(l) ==
  LET keys == Keys(l, {})
  IN [i \in 1..Len(keys) |-> [key |-> keys[i], value |-> count(l, keys[i])]]

\* for item, occ in zip(items, occ_dict): item.occurences = occ
\* iterating the dict gives its keys; zip stops at the shorter of the two
ZipOccurences(items, occ_dict) ==
  [i \in 1..Len(items) |->
     IF i <= Len(occ_dict)
     THEN [items[i] EXCEPT !.occurences = PyStr(occ_dict[i].key)]
     ELSE items[i]]

\* the chroot of the registry folder a package path points to
ChrootOf(reg, path) ==
  LET f == CHOOSE f \in Range(reg) : PkgPath(f.name) = path
  IN f.chroot

\* the part of the loop  for dep in deps  for one package: its entries
TreeItems(reg, dep) ==
  LET dep_root == dep.path \o <<"/chroot">>
      dep_contents == list_directory_tree(ChrootOf(reg, dep.path), dep_root)
  IN IF dep_contents.status = "raise" THEN dep_contents
     ELSE Ok([i \in 1..Len(dep_contents.value) |->
                [kind |-> dep_contents.value[i].kind,
                 item |-> item_t(SubSeq(dep_contents.value[i].path,
                                        Len(dep_root) + 1,
                                        Len(dep_contents.value[i].path)),
                                 dep_contents.value[i].path, dep, None)]])

RECURSIVE AllTreeItems(_, _)
AllTreeItems(reg, deps) ==
  IF deps = <<>> THEN Ok(<<>>)
  ELSE LET head == TreeItems(reg, deps[1])
       IN IF head.status = "raise" THEN head
          ELSE LET rest == AllTreeItems(reg, Tail(deps))
               IN IF rest.status = "raise" THEN rest
                  ELSE Ok(head.value \o rest.value)

IsDirItem(e) == e.kind = "dir"

IsFileItem(e) == e.kind = "file"

Items(entries) == [i \in 1..Len(entries) |-> entries[i].item]

BwrapLocs(items) == [i \in 1..Len(items) |-> items[i].bwrap_loc]

PrefixArgs ==
  << <<"--overlay-src ">> \o root,
     <<"--tmp-overlay /">>,
     <<"--bind ">> \o root \o <<"/System /System">>,
     <<"--bind ">> \o root \o <<"/Users /Users">>,
     <<"--bind ">> \o root \o <<"/Volumes /Volumes">> >>

\* lines 450-460: the tally and its pairing with the entries
Tallied(items) == ZipOccurences(items, occurence_count(BwrapLocs(items)))

\* lines 443-483 once the trees are listed: Ok(args) together with the
\* resolved packages and the directories and files printed before returning
MergeEntries(pkgs, entries) ==
  [status |-> "ok",
   value |-> PrefixArgs,
   deps |-> pkgs,
   directories |-> Tallied(Items(SelectSeq(entries, IsDirItem))),
   files |-> Tallied(Items(SelectSeq(entries, IsFileItem)))]

\* lines 420-441 followed by the merge, or the exception of a tree walk
MergeTrees(pkgs, entries) ==
  IF entries.status = "raise" THEN entries
  ELSE MergeEntries(pkgs, entries.value)

\* lines 408-441: resolution, then the tree walk of every resolved package
ResolveAndMerge(reg, pkgs) ==
  IF pkgs.status = "raise" THEN pkgs
  ELSE MergeTrees(pkgs.value, AllTreeItems(reg, pkgs.value))

\* lines 405-408: the parsed declarations handed to deps_to_pkgs
ParseAndResolve(reg, deps_info) ==
  IF deps_info.status = "raise" THEN deps_info
  ELSE ResolveAndMerge(reg, deps_to_pkgs(reg, deps_info.value))

\* generate_bwrap_args(deps): the result of the whole call, or the exception
\* that leaves it
generate_bwrap_args(reg, deps) == ParseAndResolve(reg, get_deps_info(deps))

----------------
(* Merging the trees of installed packages *)

Chroots ==
  { Dir(<<>>),
    Dir(<<Child("etc", Dir(<<Child("foo.conf", File)>>))>>),
    Dir(<<Child("motd", File),
          Child("etc", Dir(<<Child("foo.conf", File), Child("bar", File)>>)),
          Child("opt", Dir(<<Child("x", Dir(<<>>))>>))>>),
    Dir(<<Child("opt", Dir(<<>>)),
          Child("etc", Dir(<<Child("bar", File), Child("foo.conf", File)>>)),
          Child("motd", File)>>),
    Dir(<<Child("bin", DirLink), Child("sock", Other), Child("etc", Dir(<<>>))>>),
    None }

MergeFolders ==
  {Folder(n, TRUE, c) :
     n \in { <<"x">> \o Stars \o <<"1">>,
             <<"x">> \o Stars \o <<"2">>,
             <<"y">> \o Stars \o <<"1">> },
     c \in Chroots}

MergeDecls == { <<"x">>, <<"y">>, <<"x">> \o EqEq \o <<"1">> }

InitMerge ==
  /\ registry \in Registries(MergeFolders, MaxFolders)
  /\ call \in {[op |-> "generate_bwrap_args", deps |-> d] :
                 d \in SeqsUpTo(MergeDecls, MaxDeps)}
  /\ result = Pending

CallGenerateBwrapArgs ==
  /\ call.op = "generate_bwrap_args"
  /\ result = Pending
  /\ result' = generate_bwrap_args(registry, call.deps)
  /\ UNCHANGED <<registry, call>>

SpecMerge == InitMerge /\ [][CallGenerateBwrapArgs]_vars

\* the distinct resolved packages that contribute an entry at relative path
\* p to a list of entries
Contributors(items, deps, p) ==
  {d \in Range(deps) :
     \E i \in 1..Len(items) : items[i].bwrap_loc = p /\ items[i].pkg = d}

\* the contributor earliest in the resolved list (lowest priority_rank)
FirstContributor(owners, deps) ==
  deps[CHOOSE k \in 1..Len(deps) :
         /\ deps[k] \in owners
         /\ \A m \in 1..Len(deps) : deps[m] \in owners => k <= m]

\* C8: after the tally every directory entry and every file entry carries the
\* number of resolved packages contributing an entry of its kind at its path
TallyByKey ==
  call.op = "generate_bwrap_args" /\ result.status = "ok" =>
    /\ \A i \in 1..Len(result.directories) :
         result.directories[i].occurences =
           PyInt(Cardinality(Contributors(result.directories, result.deps,
                                          result.directories[i].bwrap_loc)))
    /\ \A i \in 1..Len(result.files) :
         result.files[i].occurences =
           PyInt(Cardinality(Contributors(result.files, result.deps,
                                          result.files[i].bwrap_loc)))

\* the argument groups of the merge actions, in bubblewrap's syntax
SymlinkArg(target, p) == <<"--symlink ">> \o target \o <<" ">> \o p

MkdirArg(p) == <<"--dir ">> \o p

\* the arguments after the fixed prefix that act on relative path p
ActionsAt(args, items, p) ==
  {i \in (Len(PrefixArgs) + 1)..Len(args) :
     \/ args[i] = MkdirArg(p)
     \/ \E j \in 1..Len(items) : args[i] = SymlinkArg(items[j].fullpath, p)}

\* C9: every directory path of the resolved packages' trees has exactly one
\* action: a symlink to the owner's directory when one package contains it,
\* one mkdir when two or more do
DirectoryMergePolicy ==
  call.op = "generate_bwrap_args" /\ result.status = "ok" =>
    \A i \in 1..Len(result.directories) :
      LET e == result.directories[i]
          at == ActionsAt(result.value, result.directories, e.bwrap_loc)
          owners == Contributors(result.directories, result.deps, e.bwrap_loc)
      IN /\ Cardinality(at) = 1
         /\ \A a \in at :
              IF Cardinality(owners) = 1
              THEN result.value[a] = SymlinkArg(e.fullpath, e.bwrap_loc)
              ELSE result.value[a] = MkdirArg(e.bwrap_loc)

\* C10: every file path contributed by two or more resolved packages has
\* exactly one symlink, to the file of the contributor earliest in the
\* resolved list
FileCollisionPriority ==
  call.op = "generate_bwrap_args" /\ result.status = "ok" =>
    \A i \in 1..Len(result.files) :
      LET e == result.files[i]
          at == ActionsAt(result.value, result.files, e.bwrap_loc)
          owners == Contributors(result.files, result.deps, e.bwrap_loc)
      IN Cardinality(owners) >= 2 =>
           /\ Cardinality(at) = 1
           /\ \A a \in at :
                \E j \in 1..Len(result.files) :
                  /\ result.files[j].bwrap_loc = e.bwrap_loc
                  /\ result.files[j].pkg = FirstContributor(owners, result.deps)
                  /\ result.value[a] = SymlinkArg(result.files[j].fullpath, e.bwrap_loc)

----------------------------------------------------------------------------
(* generate_bwrap_args (SysApps) and the argument sequence *)

\* list(s) for the pieces the argument strings are written with: a str
\* iterates as its characters
Spell ==
  ("--overlay-src " :> <<"-", "-", "o", "v", "e", "r", "l", "a", "y", "-", "s", "r", "c", " ">>) @@
  ("/mnt" :> <<"/", "m", "n", "t">>) @@
  ("--tmp-overlay /" :> <<"-", "-", "t", "m", "p", "-", "o", "v", "e", "r", "l", "a", "y", " ", "/">>) @@
  ("--bind " :> <<"-", "-", "b", "i", "n", "d", " ">>) @@
  ("/System /System" :> <<"/", "S", "y", "s", "t", "e", "m", " ", "/", "S", "y", "s", "t", "e", "m">>) @@
  ("/Users /Users" :> <<"/", "U", "s", "e", "r", "s", " ", "/", "U", "s", "e", "r", "s">>) @@
  ("/Volumes /Volumes" :> <<"/", "V", "o", "l", "u", "m", "e", "s", " ", "/", "V", "o", "l", "u", "m", "e", "s">>)

RECURSIVE Chars(_)
\* the characters of a string given as a sequence of pieces
Chars(s) == IF s = <<>> THEN <<>> ELSE Spell[s[1]] \o Chars(Tail(s))

\* generate_bwrap_args(deps) of SysApps/pkg/pkg.py:  args += f"..."  extends
\* the list by the characters of each string, and the function ends without
\* a return statement, so the call yields None
SysApps_generate_bwrap_args(deps) ==
  [status |-> "ok",
   value |-> None,
   args |-> Chars(<<"--overlay-src ">> \o root)
            \o Chars(<<"--tmp-overlay /">>)
            \o Chars(<<"--bind ">> \o root \o <<"/System /System">>)
            \o Chars(<<"--bind ">> \o root \o <<"/Users /Users">>)
            \o Chars(<<"--bind ">> \o root \o <<"/Volumes /Volumes">>)]

InitArgs ==
  /\ registry \in Registries(MergeFolders, MaxFolders)
  /\ call \in {[op |-> o, deps |-> d] :
                 o \in {"generate_bwrap_args", "SysApps_generate_bwrap_args"},
                 d \in SeqsUpTo(MergeDecls, MaxDeps)}
  /\ result = Pending

SysApps_CallGenerateBwrapArgs ==
  /\ call.op = "SysApps_generate_bwrap_args"
  /\ result = Pending
  /\ result' = SysApps_generate_bwrap_args(call.deps)
  /\ UNCHANGED <<registry, call>>

NextArgs ==
  \/ CallGenerateBwrapArgs
  \/ SysApps_CallGenerateBwrapArgs

SpecArgs == InitArgs /\ [][NextArgs]_vars

\* the five fixed arguments, each one list element
FixedPrefix ==
  << <<"--overlay-src ", "/mnt">>,
     <<"--tmp-overlay /">>,
     <<"--bind ", "/mnt", "/System /System">>,
     <<"--bind ", "/mnt", "/Users /Users">>,
     <<"--bind ", "/mnt", "/Volumes /Volumes">> >>

\* relative path p lies strictly below relative path q
NestedBelow(p, q) ==
  Len(p) > Len(q) /\ SubSeq(p, 1, Len(q)) = q /\ p[Len(q) + 1] = "/"

\* C11: the returned list starts with the five fixed arguments in order, each
\* one element, followed by exactly one argument group per merge action (one
\* per directory path and per file path of the resolved trees), the action of
\* a directory before every action of a path nested below it
ArgumentSequence ==
  /\ call.op = "SysApps_generate_bwrap_args" /\ result.status = "ok" =>
       /\ result.value # None
       /\ SubSeq(result.value, 1, 5) = FixedPrefix
  /\ call.op = "generate_bwrap_args" /\ result.status = "ok" =>
       LET args == result.value
           items == result.directories \o result.files
           paths == {items[i].bwrap_loc : i \in 1..Len(items)}
       IN /\ Len(args) >= 5
          /\ SubSeq(args, 1, 5) = FixedPrefix
          /\ Len(args) - 5 = Cardinality(paths)
          /\ \A p \in paths : Cardinality(ActionsAt(args, items, p)) = 1
          /\ \A p, q \in paths :
               NestedBelow(p, q) =>
                 \A i \in ActionsAt(args, items, p), j \in ActionsAt(args, items, q) :
                   j < i

----------------------------------------------------------------------------
(* Listing, searching and resolving over registries with half-written      *)
(* folders                                                                 *)

InitRegistry == InitList \/ InitResolve

NextRegistry == NextList \/ CallDepsToPkgs

SpecRegistry == InitRegistry /\ [][NextRegistry]_vars

\* a folder named <name>***<version> with a version that parses
ValidName(f) == TwoParts(f) /\ VersionValid(split(f.name, Stars)[2])

\* a validly named folder whose pkg-info is missing
HalfWritten(f) == ValidName(f) /\ ~f.info

Complete(f) == ValidName(f) /\ f.info

\* C12: (on a registry whose two-part folder names all carry a version) a
\* validly named folder without pkg-info is left out of the listing with a
\* diagnostic, the complete entries are still listed, and no assertion
\* failure leaves get_pkg_list, search_pkg_list or deps_to_pkgs
HalfWrittenTolerated ==
  (\A i \in 1..Len(registry) : TwoParts(registry[i]) => ValidName(registry[i])) =>
    /\ call.op \in {"get_pkg_list", "search_pkg_list"} /\ result # Pending =>
         result.exc # "AssertionError"
    /\ call.op = "deps_to_pkgs" /\ result.status = "raise" =>
         result.exc # "AssertionError"
    /\ call.op = "get_pkg_list" /\ result # Pending =>
         LET good == SelectSeq(registry, Complete)
             half == SelectSeq(registry, HalfWritten)
         IN /\ \A i \in 1..Len(half) : half[i].name \in Range(result.printed)
            /\ Len(result.items) = Len(good)
            /\ \A i \in 1..Len(good) :
                 result.items[i].path = PkgPath(good[i].name)

----------------------------------------------------------------------------
(* get_pkg *)

RECURSIVE Newest(_, _, _)
\* the loop  for candidate in candidates  of get_pkg (SysPkgs) from index i
Newest(candidates, i, newest) ==
  IF i > Len(candidates) THEN newest
  ELSE IF Version_lt(newest.version, candidates[i].version)
       THEN Newest(candidates, i + 1, candidates[i])
       ELSE Newest(candidates, i + 1, newest)

\* get_pkg(name) of SysPkgs/pkg/pkg.py: search_pkg_list with its default
\* strict=False
get_pkg(reg, name) ==
  LET found == search_pkg_list(reg, name, FALSE)
  IN IF found.exc # "None" THEN Raise(found.exc, name)
     ELSE IF found.items = <<>> THEN Ok(None)
     ELSE Ok(Newest(found.items, 2, found.items[1]))

\* ord(c) of the characters of the model
Ord ==
  ("*" :> 42) @@ ("." :> 46) @@ ("0" :> 48) @@ ("1" :> 49) @@ ("2" :> 50) @@
  ("<" :> 60) @@ ("=" :> 61) @@ (">" :> 62) @@ ("x" :> 120) @@ ("y" :> 121)

RECURSIVE StrLt(_, _)
\* a < b on str
StrLt(a, b) ==
  IF b = <<>> THEN FALSE
  ELSE IF a = <<>> THEN TRUE
  ELSE IF Ord[a[1]] < Ord[b[1]] THEN TRUE
  ELSE IF Ord[a[1]] > Ord[b[1]] THEN FALSE
  ELSE StrLt(Tail(a), Tail(b))

RECURSIVE SysApps_Newest(_, _, _)
\* the loop of get_pkg (SysApps): a str has no attribute version; the version
\* of a pkg_info_t is a str and compares as one
SysApps_Newest(candidates, i, newest) ==
  IF i > Len(candidates) THEN Ok(newest)
  ELSE IF newest.type = "str" THEN Raise("AttributeError", newest.value)
  ELSE IF StrLt(newest.version, candidates[i].version)
       THEN SysApps_Newest(candidates, i + 1, candidates[i])
       ELSE SysApps_Newest(candidates, i + 1, newest)

\* get_pkg(name) of SysApps/pkg/pkg.py
SysApps_get_pkg(reg, name) ==
  LET found == SysApps_search_pkg_list(reg, name, FALSE)
  IN IF found.items = <<>> THEN Ok(None)
     ELSE SysApps_Newest(found.items, 2, found.items[1])

InitGetPkg ==
  /\ registry \in Registries(ListFolders, MaxFolders)
  /\ call \in {[op |-> o, name |-> n] :
                 o \in {"get_pkg", "SysApps_get_pkg"}, n \in SearchNames}
  /\ result = Pending

CallGetPkg ==
  /\ call.op = "get_pkg"
  /\ result = Pending
  /\ result' = get_pkg(registry, call.name)
  /\ UNCHANGED <<registry, call>>

SysApps_CallGetPkg ==
  /\ call.op = "SysApps_get_pkg"
  /\ result = Pending
  /\ result' = SysApps_get_pkg(registry, call.name)
  /\ UNCHANGED <<registry, call>>

NextGetPkg ==
  \/ CallGetPkg
  \/ SysApps_CallGetPkg

SpecGetPkg == InitGetPkg /\ [][NextGetPkg]_vars

\* the installed packages matching a name: complete, validly named folders
\* whose name part contains it, with the version of the folder name
Matching(name) ==
  {i \in 1..Len(registry) :
     /\ Complete(registry[i])
     /\ Contains(split(registry[i].name, Stars)[1], name)}

FolderVersion(i) == Version(split(registry[i].name, Stars)[2])

\* the folder a returned package was listed from
ReturnedFrom(pkg, i) ==
  /\ pkg.type \in {"Package", "pkg_info_t"}
  /\ pkg.name = split(registry[i].name, Stars)[1]
  /\ pkg.path = IF pkg.type = "Package" THEN PkgPath(registry[i].name)
                ELSE registry[i].name

\* C13: (on a registry of complete, validly named folders and folders that
\* are not two-part names) get_pkg returns None when no installed package
\* matches the name, and otherwise a matching package whose version is, in
\* version order, at least that of every matching package
GetPkgNewest ==
  call.op \in {"get_pkg", "SysApps_get_pkg"} /\ result # Pending
  /\ (\A i \in 1..Len(registry) : TwoParts(registry[i]) => Complete(registry[i])) =>
    /\ result.status = "ok"
    /\ Matching(call.name) = {} => result.value = None
    /\ Matching(call.name) # {} =>
         \E i \in Matching(call.name) :
           /\ ReturnedFrom(result.value, i)
           /\ \A j \in Matching(call.name) :
                Version_ge(FolderVersion(i), FolderVersion(j))

====
